---- MODULE Spec2Model ----
(***************************************************************************)
(* The HTTP front door (launch), the addon API (getAddonList,              *)
(* getAddonById) and the overlay API (getOverlayInfo, reportInvalidAPI)    *)
(* of ruinous-twitch-ui, as a state machine over the request being served  *)
(* and the two tables its handlers query.                                  *)
(*                                                                         *)
(* The handlers are async functions: each awaited Prisma query is a step   *)
(* of its own, and the tables may change while a handler awaits, since     *)
(* no query runs in a transaction.                                         *)
(*                                                                         *)
(* Every JavaScript string is a sequence of one-character strings, so     *)
(* that parsing (KSUID, JSON, the host pattern, the route patterns) is     *)
(* computed over the characters, tokens or segments of its input.          *)
(***************************************************************************)
EXTENDS Integers, Sequences, FiniteSets, TLC

VARIABLES
    twitchAddon,        \* the Addon table: a set of rows
    twitchUserAddons,   \* the UserAddon table: a set of rows
    req,                \* the request being served
    stage,              \* the position of the request in the middleware chain
    ran,                \* the handlers that ran for the request, in order
    sent,               \* the responses sent for the request, in order
    awaited,            \* what the awaits of the running handler gave, in order
    seen,               \* the tables as the queries of the handler read them
    dbFault             \* which query of the handler Prisma failed (0: none)

vars == <<twitchAddon, twitchUserAddons, req, stage, ran, sent, awaited, seen, dbFault>>

\* ------------------------------------------------------------------ bounds

\* At most this many rows in the Addon table.
MaxAddons == 2

\* At most this many rows in the UserAddon table.
MaxUserAddons == 2

\* ----------------------------------------------------------------- strings

Digits == {"0", "1", "2", "3", "4", "5", "6", "7", "8", "9"}

\* JavaScript null, as returned by getAuthorizedUser and findFirst/findUnique.
Null == <<"<null>">>

EmptyString == << >>

\* ------------------------------------------------------------ ksuid.parse

\* The alphabet of the base-62 encoding of a KSUID.
Base62Alphabet ==
    << "0", "1", "2", "3", "4", "5", "6", "7", "8", "9",
       "A", "B", "C", "D", "E", "F", "G", "H", "I", "J", "K", "L", "M",
       "N", "O", "P", "Q", "R", "S", "T", "U", "V", "W", "X", "Y", "Z",
       "a", "b", "c", "d", "e", "f", "g", "h", "i", "j", "k", "l", "m",
       "n", "o", "p", "q", "r", "s", "t", "u", "v", "w", "x", "y", "z" >>

Base62Digit(c) == (CHOOSE i \in 1..Len(Base62Alphabet) : Base62Alphabet[i] = c) - 1

IsBase62(c) == \E i \in 1..Len(Base62Alphabet) : Base62Alphabet[i] = c

\* The length of a KSUID string (27 characters for 20 bytes; here 3
\* characters for a number below 62^3).
KsuidStringLength == 3

\* The number of payload values below one timestamp tick (2^128 for the 16
\* payload bytes; here 2^8).
KsuidPayloadSpace == 256

RECURSIVE Base62Decode(_)
Base62Decode(s) ==
    IF s = << >> THEN 0
    ELSE Base62Decode(SubSeq(s, 1, Len(s) - 1)) * Len(Base62Alphabet)
            + Base62Digit(s[Len(s)])

\* ksuid.parse(string): throws on a string that is no KSUID, otherwise the
\* timestamp is the leading bytes of the decoded number.
KsuidParse(s) ==
    IF Len(s) = KsuidStringLength /\ \A i \in 1..Len(s) : IsBase62(s[i])
    THEN [ok |-> TRUE, timestamp |-> Base62Decode(s) \div KsuidPayloadSpace]
    ELSE [ok |-> FALSE, timestamp |-> 0]

\* -------------------------------------------------------------- JSON.parse

\* A JSON text is a sequence of tokens.
JsonNumberTokens == {"0", "1", "2"}
JsonStringTokens == {"\"mode\"", "\"dark\""}
JsonLiteralTokens == {"null", "true", "false"}

JsonFail == [ok |-> FALSE, value |-> [t |-> "undefined", v |-> << >>], next |-> 0]

JsonOk(value, next) == [ok |-> TRUE, value |-> value, next |-> next]

\* An object keeps one member per key: a repeated key overwrites the value.
RECURSIVE JsonPutMember(_, _, _)
JsonPutMember(members, key, value) ==
    IF members = << >> THEN << [key |-> key, value |-> value] >>
    ELSE IF Head(members).key = key
         THEN << [key |-> key, value |-> value] >> \o Tail(members)
         ELSE << Head(members) >> \o JsonPutMember(Tail(members), key, value)

RECURSIVE JsonValue(_, _)
RECURSIVE JsonElements(_, _, _)
RECURSIVE JsonMembers(_, _, _)

\* value: a literal, a number, a string, an array or an object at toks[i].
JsonValue(toks, i) ==
    IF i > Len(toks) THEN JsonFail
    ELSE IF toks[i] \in JsonLiteralTokens
         THEN JsonOk([t |-> toks[i], v |-> << >>], i + 1)
    ELSE IF toks[i] \in JsonNumberTokens
         THEN JsonOk([t |-> "number", v |-> << toks[i] >>], i + 1)
    ELSE IF toks[i] \in JsonStringTokens
         THEN JsonOk([t |-> "string", v |-> << toks[i] >>], i + 1)
    ELSE IF toks[i] = "["
         THEN IF i + 1 <= Len(toks) /\ toks[i + 1] = "]"
              THEN JsonOk([t |-> "array", v |-> << >>], i + 2)
              ELSE JsonElements(toks, i + 1, << >>)
    ELSE IF toks[i] = "{"
         THEN IF i + 1 <= Len(toks) /\ toks[i + 1] = "}"
              THEN JsonOk([t |-> "object", v |-> << >>], i + 2)
              ELSE JsonMembers(toks, i + 1, << >>)
    ELSE JsonFail

\* elements: value ("," value)* "]"
JsonElements(toks, i, acc) ==
    LET e == JsonValue(toks, i) IN
    IF ~e.ok \/ e.next > Len(toks) THEN JsonFail
    ELSE IF toks[e.next] = "]"
         THEN JsonOk([t |-> "array", v |-> Append(acc, e.value)], e.next + 1)
    ELSE IF toks[e.next] = ","
         THEN JsonElements(toks, e.next + 1, Append(acc, e.value))
    ELSE JsonFail

\* members: string ":" value ("," string ":" value)* "}"
JsonMembers(toks, i, acc) ==
    IF i + 1 > Len(toks) \/ toks[i] \notin JsonStringTokens \/ toks[i + 1] # ":"
    THEN JsonFail
    ELSE LET m == JsonValue(toks, i + 2) IN
         IF ~m.ok \/ m.next > Len(toks) THEN JsonFail
         ELSE IF toks[m.next] = "}"
              THEN JsonOk([t |-> "object",
                           v |-> JsonPutMember(acc, toks[i], m.value)], m.next + 1)
         ELSE IF toks[m.next] = ","
              THEN JsonMembers(toks, m.next + 1, JsonPutMember(acc, toks[i], m.value))
         ELSE JsonFail

\* JSON.parse(text): the value of the whole text, or a SyntaxError.
JSONparse(text) ==
    LET r == JsonValue(text, 1) IN
    IF r.ok /\ r.next = Len(text) + 1
    THEN [ok |-> TRUE, value |-> r.value]
    ELSE [ok |-> FALSE, value |-> JsonFail.value]

\* ------------------------------------------------------------ the database

\* Addon identifiers: KSUID strings.  K1 and K2 carry the same timestamp, K3
\* an earlier one and K4 a later one.
K1 == << "0", "4", "A" >>
K2 == << "0", "5", "0" >>
K3 == << "0", "2", "0" >>
K4 == << "0", "9", "z" >>

AddonIds == {K1, K2, K3, K4}

Slug(addonId) ==
    CASE addonId = K1 -> << "c", "h", "a", "t" >>
      [] addonId = K2 -> << "p", "o", "l", "l" >>
      [] addonId = K3 -> << "c", "l", "o", "c", "k" >>
      [] OTHER        -> << "d", "r", "o", "p" >>

\* Stored JSON columns: two texts that parse and one that does not.
SchemaText == << "[", "{", "\"mode\"", ":", "\"dark\"", "}", ",", "1", "]" >>
ConfigText == << "{", "\"mode\"", ":", "[", "0", ",", "true", "]", "}" >>
BrokenText == << "{", "\"mode\"", ":" >>

\* The Addon rows the table is drawn from: one per identifier; the schema
\* column of K4 does not parse.
AddonPool ==
    { [addonId |-> id, slug |-> Slug(id),
       configSchema |-> IF id = K4 THEN BrokenText ELSE SchemaText] : id \in AddonIds }

U1 == << "1", "7" >>
U2 == << "4", "2" >>

Users == {U1, U2}

\* The user table: the owner relation of a UserAddon row.
twitchUser == { [userId |-> u] : u \in Users }

Ov1 == << "o", "v", "1" >>

\* The UserAddon rows the table is drawn from, each for an addon of the
\* Addon table.  U1 may have K1 installed without an overlay or with overlay
\* Ov1, K3 with overlay Ov1 and a configuration that does not parse, and K4
\* with overlay Ov1; U2 may have K1 installed with overlay Ov1 (overlayId is
\* not unique).
UserAddonPool(addons) ==
    { r \in { [userId |-> U1, addonId |-> K1, configJSON |-> ConfigText, overlayId |-> EmptyString],
              [userId |-> U1, addonId |-> K1, configJSON |-> ConfigText, overlayId |-> Ov1],
              [userId |-> U1, addonId |-> K3, configJSON |-> BrokenText, overlayId |-> Ov1],
              [userId |-> U1, addonId |-> K4, configJSON |-> ConfigText, overlayId |-> Ov1],
              [userId |-> U2, addonId |-> K1, configJSON |-> ConfigText, overlayId |-> Ov1] } :
        \E a \in addons : a.addonId = r.addonId }

\* The compound unique key userId_addonId of the UserAddon table.
UniqueUserIdAddonId(rows) ==
    \A r1, r2 \in rows :
        (r1.userId = r2.userId /\ r1.addonId = r2.addonId) => r1 = r2

\* The result of findFirst and findUnique when no row matches.
NoRow == [null |-> TRUE]

\* config.get('overlayBase')
OverlayBase == << "h", "t", "t", "p", "s", ":", "/", "/", "o", ".", "t", "v" >>

\* --------------------------------------------------------------- exceptions

Throw(error) == [threw |-> TRUE, error |-> error]

Return(value) == [threw |-> FALSE, value |-> value]

NotFound(message) == [name |-> "NotFound", message |-> message]

\* What Prisma throws when a query fails.
PrismaError == [name |-> "PrismaClientKnownRequestError", message |-> << "query failed" >>]

\* What JSON.parse throws.
SyntaxError == [name |-> "SyntaxError", message |-> << "Unexpected end of JSON input" >>]

\* What ksuid.parse throws.
KsuidError == [name |-> "Error", message |-> << "Valid encoded KSUIDs are 27 characters" >>]

\* ---------------------------------------------------------------- responses

\* res.json(body)
resJson(body) == [via |-> "res.json", status |-> 200, body |-> body]

\* dbErrResponse(error, res): a NotFound becomes an HTTP 404 JSON body, any
\* other error the generic failure response.
\* `error` is kept beside the response: what the handler handed over.
dbErrResponse(error) ==
    IF error.name = "NotFound"
    THEN [via |-> "dbErrResponse", error |-> error, status |-> 404,
          body |-> [success |-> FALSE, reason |-> error.message]]
    ELSE [via |-> "dbErrResponse", error |-> error, status |-> 500,
          body |-> [success |-> FALSE, reason |-> << "database error" >>]]

\* getAuthorizedUser(req, false): the user of the request's token, or null.
getAuthorizedUser(request) == request.user


\* ---------------------------------------------------------------- addons.js

\* What an awaited Prisma query gives the handler: the exception of a failed
\* query, or the value the query read.
Query(fails, value) == IF fails THEN Throw(PrismaError) ELSE Return(value)

\* fetchUserAddons without the `where: { userId }` of its query.
fetchUserAddons_AnyUser(rows, request, fails) ==
    LET userId == getAuthorizedUser(request) IN
    IF userId = Null THEN Return(<< >>)
    ELSE IF fails THEN Throw(PrismaError)
    ELSE Return([ id \in { r.addonId : r \in rows } |->
                    CHOOSE r \in rows : r.addonId = id ])

\* fetchUserAddons(db, req): the dict of the logged-in user's UserAddon rows
\* by addonId; empty, and without a query, when nobody is logged in.  `rows`
\* is the table as the findMany query reads it, `fails` tells whether the
\* query throws.
fetchUserAddons(rows, request, fails) ==
    LET userId == getAuthorizedUser(request) IN
    IF userId = Null THEN Return(<< >>)
    ELSE IF fails THEN Throw(PrismaError)
    ELSE LET data == { r \in rows : r.userId = userId } IN
         Return([ id \in { r.addonId : r \in data } |->
                    CHOOSE r \in data : r.addonId = id ])

\* `${config.get('overlayBase')}/${overlayId}`
OverlayUrl(overlayId) == OverlayBase \o << "/" >> \o overlayId

\* getAddonList, the end of the forEach callback: parse the config schema
\* into an object, if it is present.
ListParseSchema(entry) ==
    IF "configSchema" \in DOMAIN entry
    THEN LET schema == JSONparse(entry.configSchema) IN
         IF schema.ok
         THEN Return([entry EXCEPT !.configSchema = schema.value])
         ELSE Throw(SyntaxError)
    ELSE Return(entry)

\* getAddonList, the forEach callback on one entry.
ListEntry(entry, userAddons) ==
    LET parsed == KsuidParse(entry.addonId) IN
    IF ~parsed.ok THEN Throw(KsuidError)
    ELSE
    LET installed == entry.addonId \in DOMAIN userAddons
        flagged == entry @@ [timestamp |-> parsed.timestamp, installed |-> installed]
    IN  IF installed
        THEN LET userInfo == userAddons[entry.addonId]
                 cfg == JSONparse(userInfo.configJSON)
             IN  IF ~cfg.ok THEN Throw(SyntaxError)
                 ELSE ListParseSchema(
                        IF userInfo.overlayId # EmptyString
                        THEN flagged @@ [config |-> cfg.value,
                                         overlayUrl |-> OverlayUrl(userInfo.overlayId)]
                        ELSE flagged @@ [config |-> cfg.value])
        ELSE ListParseSchema(flagged)

\* result.forEach(...): the entries in order; the first exception ends it.
RECURSIVE ListForEach(_, _)
ListForEach(result, userAddons) ==
    IF result = << >> THEN Return(<< >>)
    ELSE LET first == ListEntry(Head(result), userAddons) IN
         IF first.threw THEN first
         ELSE LET rest == ListForEach(Tail(result), userAddons) IN
              IF rest.threw THEN rest
              ELSE Return(<< first.value >> \o rest.value)

\* The comparator with its operands exchanged.
CompareTimestamp_Descending(a, b) == b.timestamp - a.timestamp

\* The comparator of result.sort.
CompareTimestamp(a, b) == a.timestamp - b.timestamp

\* Array.prototype.sort is stable: an entry goes behind every entry that
\* does not compare greater.
RECURSIVE SortInsert(_, _)
SortInsert(sorted, entry) ==
    IF sorted = << >> THEN << entry >>
    ELSE IF CompareTimestamp(sorted[Len(sorted)], entry) <= 0
         THEN Append(sorted, entry)
         ELSE Append(SortInsert(SubSeq(sorted, 1, Len(sorted) - 1), entry),
                     sorted[Len(sorted)])

RECURSIVE ArraySort(_)
ArraySort(array) ==
    IF array = << >> THEN << >>
    ELSE SortInsert(ArraySort(SubSeq(array, 1, Len(array) - 1)), array[Len(array)])

\* The try block of getAddonList.  `found` is what the awaited findMany({})
\* gave, `fetched` what the awaited fetchUserAddons gave; the second await is
\* not reached when the first throws.
AddonListTry(found, fetched) ==
    IF found.threw THEN found
    ELSE IF fetched.threw THEN fetched
    ELSE LET entries == ListForEach(found.value, fetched.value) IN
         IF entries.threw THEN entries
         ELSE Return(ArraySort(entries.value))

\* getAddonList answering with the array before its entries are parsed.
getAddonList_JsonBeforeParse(found, fetched) ==
    LET try == AddonListTry(found, fetched) IN
    IF found.threw THEN << dbErrResponse(found.error) >>
    ELSE IF try.threw THEN << resJson(found.value), dbErrResponse(try.error) >>
    ELSE << resJson(try.value) >>

\* getAddonList(db, req, res): the responses it sends.
getAddonList(found, fetched) ==
    LET try == AddonListTry(found, fetched) IN
    IF try.threw THEN << dbErrResponse(try.error) >>
    ELSE << resJson(try.value) >>

\* getAddonById from the flag on: installed, overlayUrl and config.
ByIdDecorate(body, userConfig) ==
    LET installed == userConfig # NoRow
        flagged == body @@ [installed |-> installed]
    IN  IF installed
        THEN LET overId == userConfig.overlayId
                 cfg == JSONparse(userConfig.configJSON)
             IN  IF ~cfg.ok THEN Throw(SyntaxError)
                 ELSE Return(flagged @@
                        [overlayUrl |-> IF overId = EmptyString THEN EmptyString
                                        ELSE OverlayUrl(overId),
                         config |-> cfg.value])
        ELSE Return(flagged)

\* findUnique({ where: { userId_addonId } })
FindUniqueUserAddon(rows, userId, addonId) ==
    LET hits == { r \in rows : r.userId = userId /\ r.addonId = addonId } IN
    IF hits = {} THEN NoRow ELSE CHOOSE r \in hits : TRUE

\* getAddonById up to its second query.  `found` is what the awaited
\* findFirst gave: a row with the slug or the addonId of the key, or no row.
AddonByIdFound(found, request) ==
    IF found.threw THEN found
    ELSE IF found.value = NoRow
    THEN Throw(NotFound(<< "no such addon '" >> \o request.params \o << "'" >>))
    ELSE LET schema == JSONparse(found.value.configSchema) IN
         IF ~schema.ok THEN Throw(SyntaxError)
         ELSE Return([found.value EXCEPT !.configSchema = schema.value])

\* Whether getAddonById reaches its findUnique: nothing was thrown before
\* it and a user is logged in.
AwaitsFindUnique(found, request) ==
    ~AddonByIdFound(found, request).threw /\ getAuthorizedUser(request) # Null

\* The try block of getAddonById.  `unique` is what the awaited findUnique
\* gave, where the handler reached it.
AddonByIdTry(found, unique, request) ==
    LET body == AddonByIdFound(found, request) IN
    IF body.threw THEN body
    ELSE IF getAuthorizedUser(request) = Null THEN ByIdDecorate(body.value, NoRow)
    ELSE IF unique.threw THEN unique
    ELSE ByIdDecorate(body.value, unique.value)

\* getAddonById(db, req, res): the responses it sends.
getAddonById(found, unique, request) ==
    LET try == AddonByIdTry(found, unique, request) IN
    IF try.threw THEN << dbErrResponse(try.error) >>
    ELSE << resJson(try.value) >>

\* findFirst without the addonId alternative of its OR.
FindFirstAddon_SlugOnly(addons, key) ==
    LET hits == { a \in addons : a.slug = key } IN
    IF hits = {} THEN {NoRow} ELSE hits

\* The rows findFirst may return for a key.
FindFirstAddon(addons, key) ==
    LET hits == { a \in addons : a.slug = key \/ a.addonId = key } IN
    IF hits = {} THEN {NoRow} ELSE hits

\* -------------------------------------------------------------- overlays.js

\* findMany({ where: { overlayId }, include: { addon: true, owner: true } })
FindOverlays(rows, addons, overlayId) ==
    { r @@ [addon |-> CHOOSE a \in addons : a.addonId = r.addonId,
            owner |-> CHOOSE u \in twitchUser : u.userId = r.userId] :
        r \in { x \in rows : x.overlayId = overlayId } }

\* getOverlayInfo taking the first hit of several.
OverlayInfoTry_FirstOfMany(found, request) ==
    IF found.threw THEN found
    ELSE IF Len(found.value) = 0
    THEN Throw(NotFound(<< "no such overlay '" >> \o request.params \o << "'" >>))
    ELSE LET body == found.value[1]
             schema == JSONparse(body.addon.configSchema)
             cfg == JSONparse(body.configJSON)
         IN  IF ~schema.ok \/ ~cfg.ok THEN Throw(SyntaxError)
             ELSE Return([body EXCEPT !.addon.configSchema = schema.value,
                                      !.configJSON = cfg.value])

\* getOverlayInfo answering the owner of the overlay only.
OverlayInfoTry_OwnerOnly(found, request) ==
    IF found.threw THEN found
    ELSE IF Len(found.value) # 1 \/ getAuthorizedUser(request) # found.value[1].userId
    THEN Throw(NotFound(<< "no such overlay '" >> \o request.params \o << "'" >>))
    ELSE LET body == found.value[1]
             schema == JSONparse(body.addon.configSchema)
             cfg == JSONparse(body.configJSON)
         IN  IF ~schema.ok \/ ~cfg.ok THEN Throw(SyntaxError)
             ELSE Return([body EXCEPT !.addon.configSchema = schema.value,
                                      !.configJSON = cfg.value])

\* The try block of getOverlayInfo.  `found` is what the awaited findMany
\* gave.
OverlayInfoTry(found, request) ==
    IF found.threw THEN found
    ELSE IF Len(found.value) # 1
    THEN Throw(NotFound(<< "no such overlay '" >> \o request.params \o << "'" >>))
    ELSE LET body == found.value[1]
             schema == JSONparse(body.addon.configSchema)
             cfg == JSONparse(body.configJSON)
         IN  IF ~schema.ok \/ ~cfg.ok THEN Throw(SyntaxError)
             ELSE Return([body EXCEPT !.addon.configSchema = schema.value,
                                      !.configJSON = cfg.value])

\* getOverlayInfo(db, req, res): the responses it sends.
getOverlayInfo(found, request) ==
    LET try == OverlayInfoTry(found, request) IN
    IF try.threw THEN << dbErrResponse(try.error) >>
    ELSE << resJson(try.value) >>

\* reportInvalidAPI(db, req, res): the responses it sends.
reportInvalidAPI(request) ==
    << dbErrResponse(NotFound(<< "invalid API endpoint" >>)) >>

\* ------------------------------------------------------------ the requests

Localhost == << "l", "o", "c", "a", "l", "h", "o", "s", "t" >>

\* The Host headers of the requests: a public host, the development host
\* and localhost on the default port.
PublicHost == << "r", ".", "t", "v" >>

Hosts ==
    { PublicHost,
      Localhost \o << ":", "3", "0", "0", "0" >>,
      Localhost }

Methods == {"GET", "POST"}

SegApi == << "a", "p", "i" >>
SegV1 == << "v", "1" >>
SegAddons == << "a", "d", "d", "o", "n", "s" >>
SegOverlay == << "o", "v", "e", "r", "l", "a", "y" >>
SegDashboard == << "d", "a", "s", "h" >>
IndexHtml == << "i", "n", "d", "e", "x", ".", "h", "t", "m", "l" >>

\* A request path is the sequence of its segments after the leading slash;
\* a trailing slash leaves an empty last segment.
RequestPaths ==
    { << EmptyString >>,
      << SegDashboard >>,
      << SegApi, SegV1, SegOverlay, EmptyString >>,
      << SegApi, SegV1, SegOverlay, Ov1 >>,
      << SegApi, SegV1, SegAddons >> }
    \cup { << SegApi, SegV1, SegAddons, key >> : key \in AddonIds \cup {Slug(K1)} }

\* The paths of the POST requests: the page and an API route.
PostPaths == { << EmptyString >>, << SegApi, SegV1, SegOverlay, EmptyString >> }

\* The paths of the requests over plain HTTP: the pages and an API route.
PlainPaths == PostPaths \cup { << SegDashboard >> }

\* The requests: over HTTPS for the public host, a GET for every path; over
\* plain HTTP for every host, a GET for PlainPaths; a POST for PostPaths;
\* each with no login or the login of a user.
Requests ==
    { r \in [ method : Methods, secure : BOOLEAN, host : Hosts, path : RequestPaths,
              user : Users \cup {Null}, params : {EmptyString} ] :
        /\ r.method = "POST" => r.path \in PostPaths
        /\ r.secure => r.host = PublicHost
        /\ ~r.secure => r.path \in PlainPaths }

NoRequest ==
    [ method |-> "", secure |-> TRUE, host |-> EmptyString, path |-> << >>,
      user |-> Null, params |-> EmptyString ]

\* req.url
RECURSIVE Url(_)
Url(path) ==
    IF path = << >> THEN EmptyString
    ELSE << "/" >> \o Head(path) \o Url(Tail(path))

\* ------------------------------------------------------------------ launch

\* The pattern /localhost:(\d{4})/ handed to redirectToHTTPS, tested
\* against the Host header: "localhost:" and four digits, anywhere in it.
IgnoredHost(host) ==
    \E i \in 1..Len(host) :
        /\ i + Len(Localhost) + 4 <= Len(host)
        /\ SubSeq(host, i, i + Len(Localhost) - 1) = Localhost
        /\ host[i + Len(Localhost)] = ":"
        /\ \A j \in 1..4 : host[i + Len(Localhost) + j] \in Digits

\* redirectToHTTPS([/localhost:(\d{4})/], [], 302): the redirect it answers
\* an insecure request with, or nothing when it calls next().
redirectToHTTPS(request) ==
    IF ~request.secure /\ ~IgnoredHost(request.host)
    THEN << [via |-> "res.redirect", status |-> 302,
             body |-> [location |-> << "https://" >> \o request.host \o Url(request.path)]] >>
    ELSE << >>

\* The files under config.get('webRoot').
WebRootFiles == { << IndexHtml >> }

\* express.static(webRoot): a GET for a file of the web root is answered
\* with the file, a directory with its index.html; anything else is passed on.
expressStatic(request) ==
    LET file == IF request.path[Len(request.path)] = EmptyString
                THEN SubSeq(request.path, 1, Len(request.path) - 1) \o << IndexHtml >>
                ELSE request.path
    IN  IF request.method = "GET" /\ file \in WebRootFiles
        THEN << [via |-> "express.static", status |-> 200, body |-> [file |-> file]] >>
        ELSE << >>

\* The routes without the one that reports the invalid endpoint.
RouteTable_NoInvalidRoute ==
    << [handler |-> "getAddonList",
        pattern |-> << SegApi, SegV1, SegAddons >>],
       [handler |-> "getAddonById",
        pattern |-> << SegApi, SegV1, SegAddons, << ":", "k", "e", "y" >> >>],
       [handler |-> "getOverlayInfo",
        pattern |-> << SegApi, SegV1, SegOverlay, << ":", "i", "d" >> >>] >>

\* The routes of addAddonAPIs and addOverlayAPIs, in the order they are
\* added; a segment that starts with a colon is a parameter.
RouteTable ==
    << [handler |-> "getAddonList",
        pattern |-> << SegApi, SegV1, SegAddons >>],
       [handler |-> "getAddonById",
        pattern |-> << SegApi, SegV1, SegAddons, << ":", "k", "e", "y" >> >>],
       [handler |-> "reportInvalidAPI",
        pattern |-> << SegApi, SegV1, SegOverlay, EmptyString >>],
       [handler |-> "getOverlayInfo",
        pattern |-> << SegApi, SegV1, SegOverlay, << ":", "i", "d" >> >>] >>

\* Routing is not strict: one trailing slash is ignored.
StripTrailingSlash(path) ==
    IF path # << >> /\ path[Len(path)] = EmptyString
    THEN SubSeq(path, 1, Len(path) - 1)
    ELSE path

\* Whether a route pattern matches a path; a parameter matches a segment
\* that is not empty.
RouteMatches(pattern, path) ==
    LET pat == StripTrailingSlash(pattern)
        p == StripTrailingSlash(path)
    IN  /\ Len(pat) = Len(p)
        /\ \A i \in 1..Len(pat) :
              IF pat[i] # EmptyString /\ pat[i][1] = ":"
              THEN p[i] # EmptyString
              ELSE pat[i] = p[i]

\* The first route of the table that answers the request: app.get routes
\* answer GET only.  0 when there is none.
MatchedRoute(request) ==
    LET hits == { i \in 1..Len(RouteTable) :
                    request.method = "GET" /\ RouteMatches(RouteTable[i].pattern, request.path) }
    IN  IF hits = {} THEN 0 ELSE CHOOSE i \in hits : \A j \in hits : i <= j

\* coreAPIRoutes(): the handler the router runs for the request.
coreAPIRoutes(request) ==
    IF MatchedRoute(request) = 0 THEN "none"
    ELSE RouteTable[MatchedRoute(request)].handler

\* req.params of the matched route: the last segment of the path.
RouteParams(request) == StripTrailingSlash(request.path)[Len(StripTrailingSlash(request.path))]

\* fullfillSPARequest(req, res): index.html, or the 404 of the sendFile
\* callback when sending it failed.
fullfillSPARequest(request, err) ==
    IF err
    THEN << [via |-> "res.send", status |-> 404, body |-> [text |-> << "error sending file" >>]] >>
    ELSE << [via |-> "res.sendFile", status |-> 200, body |-> [file |-> << IndexHtml >>]] >>

\* Express answers a request that no middleware and no route answered.
finalHandler(request) ==
    << [via |-> "finalhandler", status |-> 404, body |-> [text |-> << "Cannot " >>]] >>

\* The arrays findMany may return for a set of rows: any order.
Arrays(rows) ==
    { a \in [1..Cardinality(rows) -> rows] :
        \A i, j \in 1..Cardinality(rows) : a[i] = a[j] => i = j }

\* ----------------------------------------------------------- state machine

\* Nothing read yet.
NothingSeen == [addons |-> {}, userAddons |-> {}]

Init ==
    /\ twitchAddon \in { S \in SUBSET AddonPool : Cardinality(S) <= MaxAddons }
    /\ twitchUserAddons \in
          { S \in SUBSET UserAddonPool(twitchAddon) :
              Cardinality(S) <= MaxUserAddons /\ UniqueUserIdAddonId(S) }
    /\ req = NoRequest
    /\ stage = "idle"
    /\ ran = << >>
    /\ sent = << >>
    /\ awaited = << >>
    /\ seen = NothingSeen
    /\ dbFault = 0

db == << twitchAddon, twitchUserAddons >>

\* The state of the running handler.
handler == << awaited, seen, dbFault >>

\* A request arrives and passes express.json().
Receive ==
    /\ stage = "idle"
    /\ \E r \in Requests : req' = r
    /\ stage' = "redirectToHTTPS"
    /\ ran' = << "express.json" >>
    /\ UNCHANGED << db, sent, handler >>

\* A middleware that answered ends the chain; one that did not passes the
\* request on to the next stage.
Answer(name, responses, next) ==
    /\ ran' = Append(ran, name)
    /\ sent' = sent \o responses
    /\ stage' = IF responses = << >> THEN next ELSE "responded"

RedirectToHTTPS ==
    /\ stage = "redirectToHTTPS"
    /\ Answer("redirectToHTTPS", redirectToHTTPS(req), "express.static")
    /\ UNCHANGED << db, req, handler >>

ExpressStatic ==
    /\ stage = "express.static"
    /\ Answer("express.static", expressStatic(req), "coreAPIRoutes")
    /\ UNCHANGED << db, req, handler >>

\* The router runs the handler of the matched route, with the parameter of
\* the route in req.params; the handler runs up to its first await, and the
\* query it awaits is evaluated: `outcome` is what the await will give.
Call(name, outcome) ==
    /\ ran' = Append(ran, name)
    /\ stage' = name
    /\ req' = [req EXCEPT !.params = RouteParams(req)]
    /\ awaited' = << outcome >>
    /\ dbFault' = IF outcome.threw THEN 1 ELSE 0
    /\ UNCHANGED << db, sent >>

\* The handler resumes with what its await gave and runs up to its next
\* await, whose query is evaluated.
Resume(outcome, fault) ==
    /\ awaited' = Append(awaited, outcome)
    /\ dbFault' = IF fault THEN Len(awaited) + 1 ELSE dbFault
    /\ UNCHANGED << db, req, stage, ran, sent >>

\* The handler resumes with what its last await gave and runs to its end:
\* it sends its responses and never calls next().
Respond(responses) ==
    /\ sent' = sent \o responses
    /\ stage' = "responded"
    /\ UNCHANGED << db, req, ran, handler >>

\* getAddonList is called; db.twitchAddon.findMany({}) is evaluated.
GetAddonList ==
    /\ stage = "coreAPIRoutes"
    /\ coreAPIRoutes(req) = "getAddonList"
    /\ \E fails \in BOOLEAN, result \in Arrays(twitchAddon) :
          /\ Call("getAddonList", Query(fails, result))
          /\ seen' = IF fails THEN seen ELSE [seen EXCEPT !.addons = twitchAddon]

\* getAddonList resumes with the addons and awaits fetchUserAddons, whose
\* findMany is evaluated when a user is logged in.
GetAddonListFetchUserAddons ==
    /\ stage = "getAddonList"
    /\ Len(awaited) = 1
    /\ ~awaited[1].threw
    /\ \E fails \in BOOLEAN :
          /\ fails => getAuthorizedUser(req) # Null
          /\ Resume(fetchUserAddons(twitchUserAddons, req, fails), fails)
          /\ seen' = IF fails \/ getAuthorizedUser(req) = Null THEN seen
                     ELSE [seen EXCEPT !.userAddons = twitchUserAddons]

\* getAddonList resumes with the user's addons, or in its catch block with
\* the exception of a query, and answers.
GetAddonListRespond ==
    /\ stage = "getAddonList"
    /\ awaited[1].threw \/ Len(awaited) = 2
    /\ Respond(getAddonList(awaited[1], awaited[Len(awaited)]))

\* getAddonById is called; db.twitchAddon.findFirst is evaluated.
GetAddonById ==
    /\ stage = "coreAPIRoutes"
    /\ coreAPIRoutes(req) = "getAddonById"
    /\ \E fails \in BOOLEAN, body \in FindFirstAddon(twitchAddon, RouteParams(req)) :
          /\ Call("getAddonById", Query(fails, body))
          /\ seen' = IF fails THEN seen ELSE [seen EXCEPT !.addons = twitchAddon]

\* getAddonById resumes with the addon and, for a logged-in user, awaits
\* db.twitchUserAddons.findUnique, which is evaluated.
GetAddonByIdFindUnique ==
    /\ stage = "getAddonById"
    /\ Len(awaited) = 1
    /\ AwaitsFindUnique(awaited[1], req)
    /\ \E fails \in BOOLEAN :
          /\ Resume(Query(fails, FindUniqueUserAddon(twitchUserAddons,
                                                     getAuthorizedUser(req),
                                                     awaited[1].value.addonId)),
                    fails)
          /\ seen' = IF fails THEN seen ELSE [seen EXCEPT !.userAddons = twitchUserAddons]

\* getAddonById resumes with what its last await gave and answers.
GetAddonByIdRespond ==
    /\ stage = "getAddonById"
    /\ Len(awaited) = 2 \/ ~AwaitsFindUnique(awaited[1], req)
    /\ Respond(getAddonById(awaited[1], awaited[Len(awaited)], req))

\* reportInvalidAPI awaits nothing: it answers in the turn it is called in.
ReportInvalidAPI ==
    /\ stage = "coreAPIRoutes"
    /\ coreAPIRoutes(req) = "reportInvalidAPI"
    /\ ran' = Append(ran, "reportInvalidAPI")
    /\ sent' = sent \o reportInvalidAPI(req)
    /\ stage' = "responded"
    /\ req' = [req EXCEPT !.params = RouteParams(req)]
    /\ UNCHANGED << db, handler >>

\* getOverlayInfo is called; db.twitchUserAddons.findMany, which includes
\* the addon and the owner of each row, is evaluated.
GetOverlayInfo ==
    /\ stage = "coreAPIRoutes"
    /\ coreAPIRoutes(req) = "getOverlayInfo"
    /\ \E fails \in BOOLEAN,
          data \in Arrays(FindOverlays(twitchUserAddons, twitchAddon, RouteParams(req))) :
          /\ Call("getOverlayInfo", Query(fails, data))
          /\ seen' = IF fails THEN seen
                     ELSE [addons |-> twitchAddon, userAddons |-> twitchUserAddons]

\* getOverlayInfo resumes with the rows, or in its catch block, and answers.
GetOverlayInfoRespond ==
    /\ stage = "getOverlayInfo"
    /\ Respond(getOverlayInfo(awaited[1], req))

\* No route of the router matched: the request falls through to the wildcard.
NoRoute ==
    /\ stage = "coreAPIRoutes"
    /\ coreAPIRoutes(req) = "none"
    /\ ran' = Append(ran, "coreAPIRoutes")
    /\ stage' = "wildcard"
    /\ UNCHANGED << db, req, sent, handler >>

\* app.get("/*", ...): fullfillSPARequest calls res.sendFile and returns to
\* the event loop with nothing sent.
FullfillSPARequest ==
    /\ stage = "wildcard"
    /\ req.method = "GET"
    /\ ran' = Append(ran, "fullfillSPARequest")
    /\ stage' = "fullfillSPARequest"
    /\ UNCHANGED << db, req, sent, handler >>

\* res.sendFile is done: the file is sent, or its callback runs with the
\* error and sends the 404.
FullfillSPARequestSendFile ==
    /\ stage = "fullfillSPARequest"
    /\ \E err \in BOOLEAN : sent' = sent \o fullfillSPARequest(req, err)
    /\ stage' = "responded"
    /\ UNCHANGED << db, req, ran, handler >>

FinalHandler ==
    /\ stage = "wildcard"
    /\ req.method # "GET"
    /\ Answer("finalhandler", finalHandler(req), "responded")
    /\ UNCHANGED << db, req, handler >>

\* The response is out; the server waits for the next request.
Finish ==
    /\ stage = "responded"
    /\ req' = NoRequest
    /\ stage' = "idle"
    /\ ran' = << >>
    /\ sent' = << >>
    /\ awaited' = << >>
    /\ seen' = NothingSeen
    /\ dbFault' = 0
    /\ UNCHANGED db

\* No query runs in a transaction and no table is locked: at any time, and
\* so while a handler awaits a query or a file, another callback of the
\* event loop, or another client of the database, may add or delete a row.
\* Once the response is out the request is over (Finish only clears it), so
\* a change after it is a change while the server is idle.
RequestOver == stage = "responded"

AddonCreated ==
    /\ ~RequestOver
    /\ Cardinality(twitchAddon) < MaxAddons
    /\ \E a \in AddonPool \ twitchAddon : twitchAddon' = twitchAddon \cup {a}
    /\ UNCHANGED << twitchUserAddons, req, stage, ran, sent, handler >>

\* An Addon row that a UserAddon row refers to is not deleted.
AddonDeleted ==
    /\ ~RequestOver
    /\ \E a \in twitchAddon :
          /\ \A r \in twitchUserAddons : r.addonId # a.addonId
          /\ twitchAddon' = twitchAddon \ {a}
    /\ UNCHANGED << twitchUserAddons, req, stage, ran, sent, handler >>

UserAddonCreated ==
    /\ ~RequestOver
    /\ Cardinality(twitchUserAddons) < MaxUserAddons
    /\ \E r \in UserAddonPool(twitchAddon) \ twitchUserAddons :
          /\ UniqueUserIdAddonId(twitchUserAddons \cup {r})
          /\ twitchUserAddons' = twitchUserAddons \cup {r}
    /\ UNCHANGED << twitchAddon, req, stage, ran, sent, handler >>

UserAddonDeleted ==
    /\ ~RequestOver
    /\ \E r \in twitchUserAddons : twitchUserAddons' = twitchUserAddons \ {r}
    /\ UNCHANGED << twitchAddon, req, stage, ran, sent, handler >>

Next ==
    \/ Receive
    \/ RedirectToHTTPS
    \/ ExpressStatic
    \/ GetAddonList
    \/ GetAddonListFetchUserAddons
    \/ GetAddonListRespond
    \/ GetAddonById
    \/ GetAddonByIdFindUnique
    \/ GetAddonByIdRespond
    \/ ReportInvalidAPI
    \/ GetOverlayInfo
    \/ GetOverlayInfoRespond
    \/ NoRoute
    \/ FullfillSPARequest
    \/ FullfillSPARequestSendFile
    \/ FinalHandler
    \/ Finish
    \/ AddonCreated
    \/ AddonDeleted
    \/ UserAddonCreated
    \/ UserAddonDeleted

Spec == Init /\ [][Next]_vars

\* ------------------------------------------------------------------ claims

\* The request has been answered, and handler h was the last to run.
Answered(h) == stage = "responded" /\ ran # << >> /\ ran[Len(ran)] = h

\* The response went through dbErrResponse with a NotFound.
IsNotFound(response) ==
    response.via = "dbErrResponse" /\ response.error.name = "NotFound"

\* The response went through dbErrResponse with another error.
IsFailure(response) ==
    response.via = "dbErrResponse" /\ response.error.name # "NotFound"

\* A claim about the database is a claim about the tables as the queries of
\* the handler read them (seen): the rows a response is computed from.  The
\* tables themselves may have changed by the time the response is sent.

\* The UserAddon rows with the overlayId of the request.
OverlayHits == { r \in seen.userAddons : r.overlayId = req.params }

\* The Addon rows with the key of the request as slug or addonId.
AddonHits == { a \in seen.addons : a.slug = req.params \/ a.addonId = req.params }

\* The UserAddon rows of the request's user for an addon.
Installs(addonId) ==
    { r \in seen.userAddons : r.userId = req.user /\ r.addonId = addonId }

\* The stored columns the overlay lookup parses for a row.
OverlayParses(row) ==
    /\ JSONparse(row.configJSON).ok
    /\ \A a \in seen.addons : a.addonId = row.addonId => JSONparse(a.configSchema).ok

\* The stored columns the addon lookups parse for an addon and the
\* request's user.
AddonParses(a) ==
    /\ JSONparse(a.configSchema).ok
    /\ req.user # Null => \A r \in Installs(a.addonId) : JSONparse(r.configJSON).ok

\* The queries the handler awaited all succeeded.
AddonQueriesSucceed == dbFault = 0

\* The body is the overlay record of the row, with its addon and its owner.
IsOverlayRecord(body, row) ==
    /\ body.overlayId = row.overlayId
    /\ body.userId = row.userId
    /\ body.addonId = row.addonId
    /\ body.configJSON = JSONparse(row.configJSON).value
    /\ body.addon.addonId = row.addonId
    /\ body.owner.userId = row.userId

\* C1 as stated: the overlay lookup answers with the overlay record (with
\* its addon and owner) exactly when exactly one UserAddon row has the
\* overlayId, and with NotFound when zero or several rows have it.  The rows
\* are those of the table as the query read it, and none when it failed.
C1_Original ==
    Answered("getOverlayInfo") =>
        /\ Len(sent) = 1
        /\ IF Cardinality(OverlayHits) = 1
           THEN /\ sent[1].via = "res.json"
                /\ \E row \in OverlayHits : IsOverlayRecord(sent[1].body, row)
           ELSE IsNotFound(sent[1])

\* C1 as amended, on the table as the query read it: when the query
\* succeeds, zero or several rows with the overlayId give NotFound; exactly one row whose stored JSON columns parse
\* gives the overlay record with its addon and owner; a failed query, or one
\* row with a column that does not parse, gives an error that is no
\* NotFound.  The overlay record is sent in no other case.
C1_OverlayLookup ==
    Answered("getOverlayInfo") =>
        /\ Len(sent) = 1
        /\ (dbFault = 0 /\ Cardinality(OverlayHits) # 1) => IsNotFound(sent[1])
        /\ (dbFault = 0 /\ Cardinality(OverlayHits) = 1
                /\ \A row \in OverlayHits : OverlayParses(row))
             => /\ sent[1].via = "res.json"
                /\ \E row \in OverlayHits : IsOverlayRecord(sent[1].body, row)
        /\ (dbFault # 0 \/ (Cardinality(OverlayHits) = 1
                /\ \E row \in OverlayHits : ~OverlayParses(row)))
             => IsFailure(sent[1])

\* The query read one row with the overlayId among two rows, the overlay
\* record was sent, and by then two rows of the table have the overlayId.
C1_Witness ==
    /\ Answered("getOverlayInfo")
    /\ Cardinality(OverlayHits) = 1
    /\ Cardinality(seen.userAddons) = 2
    /\ sent[1].via = "res.json"
    /\ Cardinality({ r \in twitchUserAddons : r.overlayId = req.params }) = 2

\* C2 as stated: the addon lookup answers NotFound exactly when no Addon row
\* has the key as slug or addonId, and otherwise with one Addon record whose
\* slug or addonId is the key.  The rows are those of the table as the query
\* read it, and none when it failed.
C2_Original ==
    Answered("getAddonById") =>
        /\ Len(sent) = 1
        /\ IsNotFound(sent[1]) <=> AddonHits = {}
        /\ AddonHits # {} =>
              /\ sent[1].via = "res.json"
              /\ \E a \in AddonHits : /\ sent[1].body.addonId = a.addonId
                                      /\ sent[1].body.slug = a.slug

\* C2 as amended, on the tables as the queries read them: the addon lookup
\* answers NotFound exactly when its first query succeeds and no Addon row
\* has the key as slug or addonId; when a
\* row has it, the queries succeed and the stored JSON columns parse, it
\* answers with one Addon record whose slug or addonId is the key; a failed
\* query or a column that does not parse gives an error that is no NotFound.
C2_AddonLookup ==
    Answered("getAddonById") =>
        /\ Len(sent) = 1
        /\ IsNotFound(sent[1]) <=> (AddonHits = {} /\ dbFault # 1)
        /\ sent[1].via = "res.json" =>
              \E a \in AddonHits : /\ sent[1].body.addonId = a.addonId
                                   /\ sent[1].body.slug = a.slug
                                   /\ (a.slug = req.params \/ a.addonId = req.params)
        /\ (AddonHits # {} /\ AddonQueriesSucceed /\ \A a \in AddonHits : AddonParses(a))
              => sent[1].via = "res.json"
        /\ IsFailure(sent[1]) <=>
              \/ dbFault = 1
              \/ /\ AddonHits # {}
                 /\ (~AddonQueriesSucceed \/ \E a \in AddonHits : ~AddonParses(a))

\* A lookup by addonId found its record for a logged-in user, and by the
\* time of the response the Addon row is deleted.
C2_Witness ==
    /\ Answered("getAddonById")
    /\ req.params \in AddonIds
    /\ req.user # Null
    /\ sent[1].via = "res.json"
    /\ sent[1].body.addonId = req.params
    /\ \A a \in twitchAddon : a.addonId # req.params

\* The records of a successful addon response: the entries of the list, or
\* the one record of the lookup.
AddonRecords ==
    IF Answered("getAddonList") /\ sent[1].via = "res.json"
    THEN { sent[1].body[i] : i \in 1..Len(sent[1].body) }
    ELSE IF Answered("getAddonById") /\ sent[1].via = "res.json"
    THEN { sent[1].body }
    ELSE {}

ExtraFields == {"installed", "config", "overlayUrl"}

\* C3: with nobody logged in, the records of the addon list and of the addon
\* lookup carry none of installed, config and overlayUrl.
C3_Original ==
    req.user = Null => \A record \in AddonRecords : DOMAIN record \cap ExtraFields = {}

\* C4: with a user logged in, every record of the addon list and of a
\* successful addon lookup carries installed, which is true exactly when a
\* UserAddon row exists for the user and the addon (in the UserAddon table
\* as the handler's query read it).
C4_Installed ==
    req.user # Null =>
        \A record \in AddonRecords :
            /\ "installed" \in DOMAIN record
            /\ record.installed <=> Installs(record.addonId) # {}

\* The list of a logged-in user holds an installed and a not installed
\* addon, another user has the latter installed, and the Addon table has
\* changed since the handler read it.
C4_Witness ==
    /\ Answered("getAddonList")
    /\ req.user # Null
    /\ \E r1, r2 \in AddonRecords :
          /\ r1.installed
          /\ ~r2.installed
          /\ \E row \in seen.userAddons : row.addonId = r2.addonId
    /\ seen.addons # twitchAddon

\* C5: a successful addon list holds every Addon row (of the Addon table as
\* the handler's query read it) exactly once, in non-decreasing order of the
\* timestamps of the addonIds.
C5_ListOrder ==
    (Answered("getAddonList") /\ sent[1].via = "res.json") =>
        LET list == sent[1].body IN
        /\ Len(list) = Cardinality(seen.addons)
        /\ \A a \in seen.addons :
              Cardinality({ i \in 1..Len(list) : list[i].addonId = a.addonId }) = 1
        /\ \A i \in 1..Len(list) : \E a \in seen.addons : a.addonId = list[i].addonId
        /\ \A i \in 1..(Len(list) - 1) :
              KsuidParse(list[i].addonId).timestamp
                 <= KsuidParse(list[i + 1].addonId).timestamp

\* A list of two addons of different timestamps was sent.
C5_Witness ==
    /\ Answered("getAddonList")
    /\ sent[1].via = "res.json"
    /\ Len(sent[1].body) >= 2
    /\ KsuidParse(sent[1].body[1].addonId).timestamp
          < KsuidParse(sent[1].body[Len(sent[1].body)].addonId).timestamp

\* C6: the overlay lookup is public: whatever login the request carries
\* (none, the owner's, another user's), the response is the one the same
\* database (the tables as the query read them) and overlayId give for
\* every other login.
C6_OverlayPublic ==
    Answered("getOverlayInfo") =>
        \A user \in Users \cup {Null} :
            \A data \in Arrays(FindOverlays(seen.userAddons, seen.addons, req.params)) :
                sent = getOverlayInfo(Query(dbFault = 1, data), [req EXCEPT !.user = user])

\* The overlay record was sent to a logged-in user who is not its owner.
C6_Witness ==
    /\ Answered("getOverlayInfo")
    /\ sent[1].via = "res.json"
    /\ req.user # Null
    /\ req.user # sent[1].body.userId

\* The host name of a Host header: what precedes the port.
RECURSIVE HostName(_)
HostName(host) ==
    IF host = << >> \/ Head(host) = ":" THEN << >>
    ELSE << Head(host) >> \o HostName(Tail(host))

\* C7: once the redirect middleware has run, an insecure request whose host
\* is not localhost has been answered with the 302 to the HTTPS URL and no
\* static, API or SPA handler has run; a request whose host is localhost is
\* never redirected.
C7_Original ==
    (stage \notin {"idle", "redirectToHTTPS"}) =>
        /\ (~req.secure /\ HostName(req.host) # Localhost) =>
              /\ ran = << "express.json", "redirectToHTTPS" >>
              /\ Len(sent) = 1
              /\ sent[1].status = 302
              /\ sent[1].body.location = << "https://" >> \o req.host \o Url(req.path)
        /\ HostName(req.host) = Localhost =>
              \A i \in 1..Len(sent) : sent[i].via # "res.redirect"

\* An exception is raised in the try block of the handler that answered.
Raised ==
    \/ Answered("reportInvalidAPI")
    \/ /\ Answered("getOverlayInfo")
       /\ \/ dbFault = 1
          \/ Cardinality(OverlayHits) # 1
          \/ \E row \in OverlayHits : ~OverlayParses(row)
    \/ /\ Answered("getAddonList")
       /\ \/ ~AddonQueriesSucceed
          \/ \E a \in seen.addons : ~AddonParses(a)
    \/ /\ Answered("getAddonById")
       /\ \/ dbFault = 1
          \/ AddonHits = {}
          \/ \E a \in AddonHits : ~AddonParses(a)
          \/ ~AddonQueriesSucceed

ApiHandlers == {"getOverlayInfo", "getAddonList", "getAddonById", "reportInvalidAPI"}

\* C8: each handler of the API sends exactly one response, the success body
\* or the error through dbErrResponse, and none while it awaits a query; a
\* raised exception gives the error.
C8_OneResponse ==
    /\ stage \in ApiHandlers => sent = << >>
    /\ (\E h \in ApiHandlers : Answered(h)) =>
        /\ Len(sent) = 1
        /\ sent[1].via \in {"res.json", "dbErrResponse"}
        /\ Raised <=> sent[1].via = "dbErrResponse"
        /\ Answered("reportInvalidAPI") =>
              sent[1].error = NotFound(<< "invalid API endpoint" >>)

\* The list met a column that does not parse behind an entry that does, and
\* answered with the error.
C8_Witness ==
    /\ Answered("getAddonList")
    /\ dbFault = 0
    /\ \E a \in seen.addons : ~AddonParses(a)
    /\ \E a \in seen.addons : AddonParses(a)
    /\ sent[1].via = "dbErrResponse"

\* The presence and the value of an extra field agree in two records.
SameField(field, r1, r2) ==
    /\ field \in DOMAIN r1 <=> field \in DOMAIN r2
    /\ (field \in DOMAIN r1 /\ field \in DOMAIN r2) => r1[field] = r2[field]

\* C9: for a logged-in user and a database that did not change while the
\* request was served, the record of the addon lookup carries the same
\* installed, config and overlayUrl as the entry of that addon in the list
\* the same database gives the user.
C9_Original ==
    (/\ Answered("getAddonById") /\ sent[1].via = "res.json" /\ req.user # Null
     /\ seen.addons = twitchAddon /\ seen.userAddons = twitchUserAddons) =>
        \A result \in Arrays(twitchAddon) :
            LET list == getAddonList(Return(result),
                                     fetchUserAddons(twitchUserAddons, req, FALSE))[1] IN
            list.via = "res.json" =>
                \A i \in 1..Len(list.body) :
                    list.body[i].addonId = sent[1].body.addonId =>
                        \A field \in ExtraFields :
                            SameField(field, sent[1].body, list.body[i])

OverlayRoot == << SegApi, SegV1, SegOverlay, EmptyString >>

SpaChain ==
    << "express.json", "redirectToHTTPS", "express.static", "coreAPIRoutes",
       "fullfillSPARequest" >>

\* C10 as stated: a GET to /api/v1/overlay/ is always answered by
\* reportInvalidAPI with NotFound 'invalid API endpoint'; the SPA handler
\* runs only for a GET that neither the static middleware nor an API route
\* answered: nothing is sent before its sendFile is done, and one response
\* after.
C10_Original ==
    /\ (stage = "responded" /\ req.method = "GET" /\ req.path = OverlayRoot) =>
          /\ Answered("reportInvalidAPI")
          /\ Len(sent) = 1
          /\ IsNotFound(sent[1])
          /\ sent[1].error.message = << "invalid API endpoint" >>
    /\ (\E i \in 1..Len(ran) : ran[i] = "fullfillSPARequest") =>
          /\ req.method = "GET"
          /\ ran = SpaChain
          /\ Len(sent) = IF stage = "responded" THEN 1 ELSE 0

\* C10 as amended: a GET to /api/v1/overlay/ that the HTTPS redirect passes
\* on is always answered by reportInvalidAPI with NotFound 'invalid API
\* endpoint', and one it does not pass on by the redirect; the SPA handler
\* runs only for a GET that neither the static middleware nor an API route
\* answered: nothing is sent before its sendFile is done, and one response
\* after.
C10_RoutePrecedence ==
    /\ (stage = "responded" /\ req.method = "GET" /\ req.path = OverlayRoot) =>
          IF req.secure \/ IgnoredHost(req.host)
          THEN /\ Answered("reportInvalidAPI")
               /\ Len(sent) = 1
               /\ IsNotFound(sent[1])
               /\ sent[1].error.message = << "invalid API endpoint" >>
          ELSE /\ Answered("redirectToHTTPS")
               /\ Len(sent) = 1
               /\ sent[1].via = "res.redirect"
    /\ (\E i \in 1..Len(ran) : ran[i] = "fullfillSPARequest") =>
          /\ req.method = "GET"
          /\ ran = SpaChain
          /\ Len(sent) = IF stage = "responded" THEN 1 ELSE 0

\* A GET to /api/v1/overlay/ was answered by reportInvalidAPI.
C10_Witness ==
    /\ Answered("reportInvalidAPI")
    /\ req.method = "GET"
    /\ req.path = OverlayRoot
    /\ IsNotFound(sent[1])

====
